---- MODULE Spec2Model ----
(***************************************************************************)
(* Model of rfdate (src/lib.rs): the single-pass scanner find_dates, the   *)
(* magnitude-based disambiguation DateHolder::as_date, find_last_date and  *)
(* the ordering of partially-known dates.                                  *)
(*                                                                         *)
(* Characters are one-character strings, a Part / an input text is a       *)
(* sequence of characters, a Rust String is a TLA+ string.                 *)
(***************************************************************************)
EXTENDS Integers, Sequences, FiniteSets, TLC

VARIABLES
    text,          \* find_dates: the characters of s consumed so far
    date_holders,  \* find_dates: DateHolders, the finalized groups
    date_holder,   \* find_dates: the in-progress DateHolder
    curr_part,     \* find_dates: the in-progress Part
    dates,         \* the value returned by find_dates
    last,          \* the value returned by find_last_date
    holding,       \* as_date: the DateHolder being converted
    outcome,       \* as_date: the value returned
    branch,        \* as_date: the arm of the 3-part if/else chain taken
    da, db, dc,    \* partial_cmp: three Dates
    ord,           \* partial_cmp: the values returned for the pairs
    pc             \* position of the call in progress

vars == <<text, date_holders, date_holder, curr_part, dates, last,
          holding, outcome, branch, da, db, dc, ord, pc>>

scanVars == <<text, date_holders, date_holder, curr_part, dates, last>>
dateVars == <<holding, outcome, branch>>
cmpVars  == <<da, db, dc, ord>>

----------------------------------------------------------------------------
(* Bounds *)

\* longest input text given to find_dates
MaxLen == 7
\* longest DateHolder handed directly to as_date
MaxHolding == 3
\* largest known field value of the Dates that are compared
MaxField == 1

\* the characters input texts are drawn from: two digits, a separator and a
\* group terminator
Alphabet == {"0", "2", "-", "x"}

\* the Parts the DateHolders handed directly to as_date are drawn from
PartSet == { <<"0">>, <<"5">>, <<"0", "5">>, <<"0", "0", "5">>,
             <<"1", "0">>, <<"1", "2">>, <<"1", "3">>,
             <<"2", "0", "2", "3">>, <<"6", "5", "5", "3", "6">> }

----------------------------------------------------------------------------
(* Option<u16>, Date, Result<Date, DateError> *)

None == [some |-> FALSE, val |-> 0]
Some(v) == [some |-> TRUE, val |-> v]

Date(y, m, d) == [year |-> y, month |-> m, day |-> d]

NoDate == Date(None, None, None)
NoVals == <<None, None, None>>

Ok(d) == [tag |-> "Ok", date |-> d, vals |-> NoVals, msg |-> ""]
NoDatesFound(m) == [tag |-> "NoDatesFound", date |-> NoDate, vals |-> NoVals, msg |-> m]
UndecidedDate(t) == [tag |-> "UndecidedDate", date |-> NoDate, vals |-> t, msg |-> ""]
InvalidDateFormat(m) == [tag |-> "InvalidDateFormat", date |-> NoDate, vals |-> NoVals, msg |-> m]

\* placeholder of a variable whose call has not returned yet
Pending == [tag |-> "Pending", date |-> NoDate, vals |-> NoVals, msg |-> ""]

----------------------------------------------------------------------------
(* Characters and strings *)

is_separator(ch) == ch \in {"-", "/", "_", " ", "."}

is_ascii_digit(ch) == ch \in {"0", "1", "2", "3", "4", "5", "6", "7", "8", "9"}

DigitVal(ch) ==
    CASE ch = "0" -> 0 [] ch = "1" -> 1 [] ch = "2" -> 2 [] ch = "3" -> 3
      [] ch = "4" -> 4 [] ch = "5" -> 5 [] ch = "6" -> 6 [] ch = "7" -> 7
      [] ch = "8" -> 8 [] ch = "9" -> 9

\* a sequence of characters written out as a String
RECURSIVE ToStr(_)
ToStr(chars) == IF chars = <<>> THEN "" ELSE Head(chars) \o ToStr(Tail(chars))

----------------------------------------------------------------------------
(* Part *)

U16Max == 65535

ParseOk(v) == [ok |-> TRUE, val |-> v, err |-> ""]
ParseErr(e) == [ok |-> FALSE, val |-> 0, err |-> e]

RECURSIVE DecVal(_)
DecVal(chars) ==
    IF chars = <<>> THEN 0
    ELSE DecVal(SubSeq(chars, 1, Len(chars) - 1)) * 10 + DigitVal(chars[Len(chars)])

\* str::parse::<u16> on a string of decimal digits
parse_u16(chars) ==
    IF chars = <<>> THEN ParseErr("cannot parse integer from empty string")
    ELSE IF DecVal(chars) > U16Max THEN ParseErr("number too large to fit in target type")
    ELSE ParseOk(DecVal(chars))

to_u16(part) ==
    parse_u16(IF Len(part) > 0 /\ part[1] = "0" THEN Tail(part) ELSE part)

DisplayPart(part) == ToStr(part)

----------------------------------------------------------------------------
(* DateHolder *)

RECURSIVE DisplayHolderChars(_)
DisplayHolderChars(h) ==
    IF h = <<>> THEN <<>> ELSE Head(h) \o <<" ">> \o DisplayHolderChars(Tail(h))

\* every part followed by a space, then the last character popped
DisplayHolder(h) ==
    LET str == DisplayHolderChars(h)
    IN  ToStr(IF str = <<>> THEN str ELSE SubSeq(str, 1, Len(str) - 1))

FromParseIntError(err) == InvalidDateFormat(err)

\* as_date2 with 12 itself taken as too large for a month
as_date2_ge(opt1, opt2) ==
    IF opt1 >= 12 THEN Ok(Date(Some(opt1), Some(opt2), None))
    ELSE IF opt2 >= 12 THEN Ok(Date(Some(opt2), Some(opt1), None))
    ELSE UndecidedDate(<<Some(opt1), Some(opt2), None>>)

as_date2(opt1, opt2) ==
    IF opt1 > 12 THEN Ok(Date(Some(opt1), Some(opt2), None))
    ELSE IF opt2 > 12 THEN Ok(Date(Some(opt2), Some(opt1), None))
    ELSE UndecidedDate(<<Some(opt1), Some(opt2), None>>)

\* branch3 with the second arm reachable: a last value above 12 is the year
branch3_last_is_year(opt1, opt2, opt3) ==
    IF opt1 > 12 THEN 1
    ELSE IF opt3 > 12 /\ opt1 <= 12 THEN 2
    ELSE IF opt2 > 12 THEN 3
    ELSE IF opt1 = opt2 /\ opt2 = opt3 THEN 4
    ELSE 5

\* the arm of the 3-part if/else chain that is taken
branch3(opt1, opt2, opt3) ==
    IF opt1 > 12 THEN 1
    ELSE IF opt3 > 12 /\ opt1 > 12 THEN 2
    ELSE IF opt2 > 12 THEN 3
    ELSE IF opt1 = opt2 /\ opt2 = opt3 THEN 4
    ELSE 5

as_date3(opt1, opt2, opt3) ==
    CASE branch3(opt1, opt2, opt3) = 1 -> Ok(Date(Some(opt1), Some(opt2), Some(opt3)))
      [] branch3(opt1, opt2, opt3) = 2 -> Ok(Date(Some(opt3), Some(opt1), Some(opt2)))
      [] branch3(opt1, opt2, opt3) = 3 -> Ok(Date(Some(opt3), Some(opt1), Some(opt2)))
      [] branch3(opt1, opt2, opt3) = 4 -> Ok(Date(Some(opt1), Some(opt2), Some(opt3)))
      [] OTHER -> UndecidedDate(<<Some(opt1), Some(opt2), Some(opt3)>>)

as_date(h) ==
    IF Len(h) = 2 THEN
        IF ~to_u16(h[1]).ok THEN FromParseIntError(to_u16(h[1]).err)
        ELSE IF ~to_u16(h[2]).ok THEN FromParseIntError(to_u16(h[2]).err)
        ELSE as_date2(to_u16(h[1]).val, to_u16(h[2]).val)
    ELSE IF Len(h) = 3 THEN
        IF ~to_u16(h[1]).ok THEN FromParseIntError(to_u16(h[1]).err)
        ELSE IF ~to_u16(h[2]).ok THEN FromParseIntError(to_u16(h[2]).err)
        ELSE IF ~to_u16(h[3]).ok THEN FromParseIntError(to_u16(h[3]).err)
        ELSE as_date3(to_u16(h[1]).val, to_u16(h[2]).val, to_u16(h[3]).val)
    ELSE InvalidDateFormat(DisplayHolder(h))

\* the arm of the 3-part chain as_date(h) takes, 0 when it reaches none
as_date_branch(h) ==
    IF Len(h) = 3 /\ to_u16(h[1]).ok /\ to_u16(h[2]).ok /\ to_u16(h[3]).ok
    THEN branch3(to_u16(h[1]).val, to_u16(h[2]).val, to_u16(h[3]).val)
    ELSE 0

----------------------------------------------------------------------------
(* DateHolders *)

as_dates(hs) == [i \in 1..Len(hs) |-> as_date(hs[i])]

----------------------------------------------------------------------------
(* find_dates *)

\* the three locals of find_dates
Locals(hs, h, p) == [date_holders |-> hs, date_holder |-> h, curr_part |-> p]

NewLocals == Locals(<<>>, <<>>, <<>>)

\* DateHolder::add_date_part: clone the part into the holder, truncate it
add_date_part(st) ==
    Locals(st.date_holders, Append(st.date_holder, st.curr_part), <<>>)

\* DateHolders::push: clone the holder into the list, truncate it
push(st) ==
    Locals(Append(st.date_holders, st.date_holder), <<>>, st.curr_part)

on_digit(st, ch) == [st EXCEPT !.curr_part = Append(@, ch)]

on_separator(st) == IF st.curr_part # <<>> THEN add_date_part(st) ELSE st

\* on_terminator finalizing a group of a single part
on_terminator_ge1(st) ==
    IF Len(st.date_holder) >= 1 THEN push(st)
    ELSE IF st.date_holder # <<>> THEN Locals(st.date_holders, <<>>, <<>>)
    ELSE st

on_terminator(st) ==
    IF Len(st.date_holder) >= 2 THEN push(st)
    ELSE IF st.date_holder # <<>> THEN Locals(st.date_holders, <<>>, <<>>)
    ELSE st

\* the body of the loop over s.chars()
scan_char(st, ch) ==
    IF is_separator(ch) \/ is_ascii_digit(ch) THEN
        IF is_ascii_digit(ch) THEN on_digit(st, ch) ELSE on_separator(st)
    ELSE on_terminator(st)

\* the code after the loop
end_of_input(st) ==
    IF st.date_holder # <<>> THEN push(add_date_part(st)) ELSE st

RECURSIVE scan(_, _)
scan(st, s) == IF s = <<>> THEN st ELSE scan(scan_char(st, Head(s)), Tail(s))

find_dates(s) == as_dates(end_of_input(scan(NewLocals, s)).date_holders)

\* find_last_date returning the first entry
find_last_date_first(s) ==
    IF find_dates(s) = <<>> THEN NoDatesFound(ToStr(s))
    ELSE find_dates(s)[1]

find_last_date(s) ==
    IF find_dates(s) = <<>> THEN NoDatesFound(ToStr(s))
    ELSE find_dates(s)[Len(find_dates(s))]

----------------------------------------------------------------------------
(* Date ordering *)

SomeOrd(o) == [some |-> TRUE, ord |-> o]

Fields(d) == <<d.year, d.month, d.day>>

\* cmp_from with an unknown field above a known one
RECURSIVE cmp_from_swapped(_, _, _)
cmp_from_swapped(a, b, i) ==
    IF i > 3 THEN SomeOrd("Equal")
    ELSE IF ~a[i].some /\ b[i].some THEN SomeOrd("Greater")
    ELSE IF a[i].some /\ ~b[i].some THEN SomeOrd("Less")
    ELSE IF a[i].some /\ b[i].some /\ a[i].val < b[i].val THEN SomeOrd("Less")
    ELSE IF a[i].some /\ b[i].some /\ a[i].val > b[i].val THEN SomeOrd("Greater")
    ELSE cmp_from_swapped(a, b, i + 1)

\* the loop over the zipped fields, from the i-th pair on
RECURSIVE cmp_from(_, _, _)
cmp_from(a, b, i) ==
    IF i > 3 THEN SomeOrd("Equal")
    ELSE IF ~a[i].some /\ b[i].some THEN SomeOrd("Less")
    ELSE IF a[i].some /\ ~b[i].some THEN SomeOrd("Greater")
    ELSE IF a[i].some /\ b[i].some /\ a[i].val < b[i].val THEN SomeOrd("Less")
    ELSE IF a[i].some /\ b[i].some /\ a[i].val > b[i].val THEN SomeOrd("Greater")
    ELSE cmp_from(a, b, i + 1)

partial_cmp(self, other) == cmp_from(Fields(self), Fields(other), 1)

----------------------------------------------------------------------------
(* The scan of one input text, find_dates and find_last_date *)

Cur == Locals(date_holders, date_holder, curr_part)

SetLocals(st) ==
    /\ date_holders' = st.date_holders
    /\ date_holder' = st.date_holder
    /\ curr_part' = st.curr_part

IdleDate == holding = <<>> /\ outcome = Pending /\ branch = 0
IdleCmp == da = NoDate /\ db = NoDate /\ dc = NoDate /\ ord = <<>>
IdleScan ==
    /\ text = <<>> /\ date_holders = <<>> /\ date_holder = <<>>
    /\ curr_part = <<>> /\ dates = <<>> /\ last = Pending

Init ==
    /\ pc = "scan"
    /\ IdleScan /\ IdleDate /\ IdleCmp

ReadChar(ch) ==
    /\ pc = "scan"
    /\ Len(text) < MaxLen
    /\ text' = Append(text, ch)
    /\ SetLocals(scan_char(Cur, ch))
    /\ UNCHANGED <<dates, last, pc, dateVars, cmpVars>>

ReadDigit == \E ch \in Alphabet : is_ascii_digit(ch) /\ ReadChar(ch)

ReadSeparator == \E ch \in Alphabet : is_separator(ch) /\ ReadChar(ch)

ReadTerminator ==
    \E ch \in Alphabet : ~is_ascii_digit(ch) /\ ~is_separator(ch) /\ ReadChar(ch)

\* s.chars() is exhausted: flush, convert, return
EndOfInput ==
    /\ pc = "scan"
    /\ SetLocals(end_of_input(Cur))
    /\ dates' = as_dates(end_of_input(Cur).date_holders)
    /\ pc' = "done"
    /\ UNCHANGED <<text, last, dateVars, cmpVars>>

\* find_last_date on the same text
FindLastDate ==
    /\ pc = "done"
    /\ last' = find_last_date(text)
    /\ pc' = "returned"
    /\ UNCHANGED <<text, date_holders, date_holder, curr_part, dates, dateVars, cmpVars>>

Next == ReadDigit \/ ReadSeparator \/ ReadTerminator \/ EndOfInput \/ FindLastDate

Spec == Init /\ [][Next]_vars

----------------------------------------------------------------------------
(* as_date applied to a DateHolder *)

Holdings == UNION { [1..n -> PartSet] : n \in 1..MaxHolding }

InitDate ==
    /\ pc = "holder"
    /\ holding \in Holdings
    /\ outcome = Pending /\ branch = 0
    /\ IdleScan /\ IdleCmp

AsDate ==
    /\ pc = "holder"
    /\ outcome' = as_date(holding)
    /\ branch' = as_date_branch(holding)
    /\ pc' = "converted"
    /\ UNCHANGED <<holding, scanVars, cmpVars>>

NextDate == AsDate

SpecDate == InitDate /\ [][NextDate]_vars

----------------------------------------------------------------------------
(* partial_cmp applied to Dates *)

FieldVals == {None} \cup {Some(v) : v \in 0..MaxField}

DateSet == {Date(y, m, d) : y \in FieldVals, m \in FieldVals, d \in FieldVals}

InitCmp ==
    /\ pc = "dates"
    /\ da \in DateSet /\ db \in DateSet /\ dc \in DateSet
    /\ ord = <<>>
    /\ IdleScan /\ IdleDate

Compare ==
    /\ pc = "dates"
    /\ ord' = [ab |-> partial_cmp(da, db), ba |-> partial_cmp(db, da),
               bc |-> partial_cmp(db, dc), ac |-> partial_cmp(da, dc)]
    /\ pc' = "compared"
    /\ UNCHANGED <<da, db, dc, scanVars, dateVars>>

NextCmp == Compare

SpecCmp == InitCmp /\ [][NextCmp]_vars

----------------------------------------------------------------------------
(* Properties of the scan (Spec) *)

Last(s) == s[Len(s)]

is_terminator(ch) == ~is_ascii_digit(ch) /\ ~is_separator(ch)

\* a digit, then one or more separators, then a digit
HasDigitSepDigit(s) ==
    \E i, j \in 1..Len(s) :
        /\ i + 1 < j
        /\ is_ascii_digit(s[i]) /\ is_ascii_digit(s[j])
        /\ \A k \in (i + 1)..(j - 1) : is_separator(s[k])

\* every Part stored in a group, finalized or in progress
StoredParts ==
    {date_holder[i] : i \in 1..Len(date_holder)}
    \cup UNION { {date_holders[g][i] : i \in 1..Len(date_holders[g])} : g \in 1..Len(date_holders) }

\* C1: right after a group terminator has been processed, the in-progress
\* group and the in-progress part are both empty.
ClaimC1 ==
    (pc = "scan" /\ text # <<>> /\ is_terminator(Last(text)))
        => (date_holder = <<>> /\ curr_part = <<>>)

\* C2: a text without any digit-separator-digit pattern yields an empty
\* result sequence.
ClaimC2 ==
    (pc \in {"done", "returned"} /\ ~HasDigitSepDigit(text)) => dates = <<>>

\* C3 (as stated): every finalized group has exactly 2 or 3 parts.
ClaimC3 ==
    \A g \in 1..Len(date_holders) : Len(date_holders[g]) \in {2, 3}

\* C3 (amended): every finalized group has at least 2 parts; groups of
\* length 1 are never finalized, groups of more than 3 parts can be.
ThmC3 ==
    \A g \in 1..Len(date_holders) : Len(date_holders[g]) >= 2

WitC3 ==
    /\ pc = "done"
    /\ \E g \in 1..Len(date_holders) : Len(date_holders[g]) > 3

\* C4: every part stored into a group is non-empty and made of decimal
\* digits only.
ClaimC4 ==
    \A p \in StoredParts : p # <<>> /\ \A i \in 1..Len(p) : is_ascii_digit(p[i])

\* C9: find_last_date returns the last entry of find_dates when there is
\* one, and NoDatesFound carrying the input text exactly when there is none.
ThmC9 ==
    pc = "returned" =>
        /\ dates # <<>> => last = dates[Len(dates)]
        /\ dates = <<>> => last = NoDatesFound(ToStr(text))
        /\ last.tag = "NoDatesFound" <=> dates = <<>>

WitC9 ==
    /\ pc = "returned"
    /\ Len(dates) = 2
    /\ dates[1] # dates[2]
    /\ last = dates[2]

----------------------------------------------------------------------------
(* Properties of as_date (SpecDate) *)

Converts(h) == \A i \in 1..Len(h) : to_u16(h[i]).ok

V(i) == to_u16(holding[i]).val

ClaimC6 ==
    (pc = "converted" /\ Len(holding) = 3 /\ Converts(holding)) =>
        \A i \in 1..3 :
            (V(i) > 12 /\ \A j \in (1..3) \ {i} : V(j) <= 12)
                => (outcome.tag = "Ok" /\ outcome.date.year = Some(V(i)))

\* C7: the 2-part precedence: v1 > 12 gives (year v1, month v2), else
\* v2 > 12 gives (month v1, year v2), else undecided (v1, v2, none); a
\* successful result never knows the day.
ThmC7 ==
    (pc = "converted" /\ Len(holding) = 2 /\ Converts(holding)) =>
        /\ outcome =
             IF V(1) > 12 THEN Ok(Date(Some(V(1)), Some(V(2)), None))
             ELSE IF V(2) > 12 THEN Ok(Date(Some(V(2)), Some(V(1)), None))
             ELSE UndecidedDate(<<Some(V(1)), Some(V(2)), None>>)
        /\ outcome.tag = "Ok" => outcome.date.day = None

WitC7 ==
    /\ pc = "converted" /\ Len(holding) = 2 /\ Converts(holding)
    /\ V(1) = 12 /\ V(2) > 12
    /\ outcome = Ok(Date(Some(V(2)), Some(12), None))

\* C10: when a part of a 2- or 3-part group fails to convert, the result is
\* InvalidDateFormat carrying the rendering of the group.
ClaimC10 ==
    (pc = "converted" /\ Len(holding) \in {2, 3} /\ ~Converts(holding)) =>
        outcome = InvalidDateFormat(DisplayHolder(holding))

----------------------------------------------------------------------------
(* Properties of partial_cmp (SpecCmp) *)

\* an unknown field is below every known value
Key(f) == IF f.some THEN f.val ELSE -1

Keys(d) == <<Key(d.year), Key(d.month), Key(d.day)>>

Lex(a, b) ==
    IF a = b THEN "Equal"
    ELSE LET i == CHOOSE k \in 1..3 : a[k] # b[k] /\ \A m \in 1..(k - 1) : a[m] = b[m]
         IN  IF a[i] < b[i] THEN "Less" ELSE "Greater"

Flip(o) == CASE o = "Less" -> "Greater" [] o = "Greater" -> "Less" [] OTHER -> "Equal"

\* C8: the comparison always yields a result, is the lexicographic order
\* over (year, month, day) with unknown below known, is antisymmetric and
\* transitive, and is Equal exactly for field-for-field equal dates.
ThmC8 ==
    pc = "compared" =>
        /\ ord.ab.some /\ ord.ba.some /\ ord.bc.some /\ ord.ac.some
        /\ ord.ab.ord = Lex(Keys(da), Keys(db))
        /\ ord.ba.ord = Flip(ord.ab.ord)
        /\ (ord.ab.ord # "Greater" /\ ord.bc.ord # "Greater") => ord.ac.ord # "Greater"
        /\ (ord.ab.ord = "Less" /\ ord.bc.ord # "Greater") => ord.ac.ord = "Less"
        /\ (ord.ab.ord # "Greater" /\ ord.bc.ord = "Less") => ord.ac.ord = "Less"
        /\ ord.ab.ord = "Equal" <=> da = db

WitC8 ==
    /\ pc = "compared"
    /\ ~da.month.some /\ db.month.some /\ da.year = db.year /\ da.year.some
    /\ ord.ab.ord = "Less" /\ ord.bc.ord = "Less" /\ ord.ac.ord = "Less"

====
